---------------------------- MODULE Spec2Model ----------------------------
(***************************************************************************)
(* A model of chriszhangmq/file-rotatelogs: the rotation engine            *)
(* (src/rotatelogs.go, lines 1-498), the file helpers                      *)
(* (src/internal/fileutil/fileutil.go) and the date comparisons            *)
(* (src/internal/timeutil/timeutil.go).                                    *)
(*                                                                         *)
(* A family file is named <filePath><fileName>-<date>[.<index>].log; the   *)
(* model writes it as the record [day, idx] (idx 0: no index).  Beside a   *)
(* path P the directory may hold P.gz (the compressed sibling), P_lock     *)
(* (the lock marker) and P_symlink (the symlink marker).  Time is counted  *)
(* in days; rotationTime and maxAge are whole days in the source too.      *)
(* Sizes are counted in chunks: every Write appends one chunk.             *)
(***************************************************************************)
EXTENDS Integers, FiniteSets, Sequences, TLC

\* ---------------------------------------------------------------- bounds
\* last day the clock reaches (the clock starts at day 1)
MaxDay == 3
\* largest numeric index of a file name explored
MaxIdx == 1
\* largest file size explored, in chunks
MaxSize == 2
\* largest number of rotation events one engine dispatches
MaxEvents == 2

\* the engine instances (processes) that share the file family
Procs == {1, 2}

\* the date GenerateFileNme formats when the clock is in UTC: the zero
\* time.Time, "0001-01-01"
ZeroDay == 0
Days == ZeroDay .. MaxDay
Files == [day : Days, idx : 0 .. MaxIdx]
\* the empty file name (common.IsNull)
NoFile == [day |-> -1, idx |-> 0]
\* a nil *os.File
NilFh == [f |-> NoFile, att |-> FALSE]
\* no FileRotatedEvent
NoEvent == [prev |-> NoFile, current |-> NoFile]

VARIABLES
    cfg,        \* the options the engines were built with (New)
    now,        \* the clock, in days
    size,       \* size[f]: size of the log file f, -1 when it does not exist
    gz,         \* gz[f]: the compressed sibling: "none", "partial", "full"
    lockf,      \* lockf[f]: 0, or the process that created f's lock marker
    tmpl,       \* tmpl[f]: f's symlink marker exists
    link,       \* the file the symbolic link names, NoFile when there is none
    started,    \* started[p]: p has called Init
    curFn,      \* rl.curFn
    outFh,      \* rl.outFh: [f, att]; att: the handle's file is still linked
    generation, \* rl.generation
    pc,         \* position of p's call in flight
    op,         \* the call in flight: "write", "rotate", "init", "none"
    newFn,      \* getWriterNolock's filename
    newFh,      \* getWriterNolock's fh
    rerr,       \* the step of rotateNolock that failed, "none" when none did
    pre,        \* curFn, outFh, generation when the call in flight began
    ret,        \* what p's last call returned: [op, err, n, cause]
    nopen,      \* nopen[p]: log-file handles p has opened and not closed
    wpc,        \* wpc[p]: position of p's compression goroutine
    wtodo,      \* the files it has selected and not yet visited
    wcur,       \* the file it is compressing
    hsent,      \* hsent[p]: FileRotatedEvents p has handed to its handler
    hev,        \* hev[p]: the last of them, [prev, current]
    hrun        \* hrun[p]: goroutines of h.Handle started and not returned

fsVars == <<size, gz, lockf, tmpl, link>>
rlVars == <<started, curFn, outFh, generation, pc, op, newFn, newFh, rerr, pre,
           ret, nopen>>
wVars == <<wpc, wtodo, wcur>>
hVars == <<hsent, hev, hrun>>
vars == <<cfg, now, fsVars, rlVars, wVars, hVars>>


\* ------------------------------------------------------------ New: options
\* option values tried: WithRotationTime / WithMaxAge (days), WithRotationSize
\* (chunks), WithRotationCount
RotationTimes == {0, 1}
MaxAges == {0, 1}
RotationSizes == {0, 2}
RotationCounts == {0, 1}

\* utc: the clock's location is time.UTC; east: time.Local is ahead of UTC
\* (a positive offset); dir: filePath names a directory (it ends in a
\* separator), otherwise it is a bare prefix in the working directory; link:
\* WithLinkName(true); cron: cronTime is not empty; handler: WithHandler
\* registered an event handler
Configs ==
    [utc : BOOLEAN, east : BOOLEAN, dir : BOOLEAN, link : BOOLEAN,
     compress : BOOLEAN, handler : BOOLEAN,
     cron : BOOLEAN, rotationTime : RotationTimes, maxAge : MaxAges,
     rotationSize : RotationSizes, rotationCount : RotationCounts]

\* New returns an engine (and not an error) for these options
New(c) ==
    /\ ~(c.maxAge > 0 /\ c.rotationCount > 0)
    /\ ~((c.rotationTime > 0 \/ c.maxAge > 0) /\ ~c.cron)
    /\ ~((c.rotationTime <= 0 \/ c.maxAge <= 0) /\ c.cron)
    /\ ~(c.compress /\ ~c.cron)

\* ------------------------------------------------------------ pure helpers
\* os.Stat(f) succeeds
Exists(f) == f \in Files /\ size[f] >= 0

\* the date GenerateFileNme puts in the name: the clock's wall-clock date,
\* but the zero time when the clock's location is UTC (base is never set)
GenerateFileNme == IF cfg.utc THEN ZeroDay ELSE now

\* ParseTimeFromFileName: the day parsed from the name, -1 for an error.
\* getTimeFromStr takes the first run that starts with a digit 1-9, so of
\* "0001-01-01" it keeps "1-01-01", which time.Parse rejects
ParseTimeFromFileName(f) ==
    IF f \notin Files \/ f.day = ZeroDay THEN -1 ELSE f.day

\* timeutil: IsToday and IsMaxDay compare calendar dates
IsToday(fileDay, today) == fileDay = today
IsMaxDay(cutOff, fileDay) == fileDay < cutOff

\* CompareTimeWithDay compares instants: fileTime is midnight of the file's
\* day in time.Local (ParseInLocation), cutOffDate is midnight of the cutoff's
\* day in UTC (time.Parse).  East of UTC local midnight comes before UTC
\* midnight of the same date
CompareTimeWithDay(cutOff, fileDay) ==
    IF cfg.east THEN fileDay <= cutOff ELSE fileDay < cutOff

\* fi.Name() == path: a base name equals a path built as filePath + name only
\* when filePath adds no directory
NameIsPath(f, path) == ~cfg.dir /\ f = path

RECURSIVE IndexedName(_, _)
\* the for loop of GetNewFileName, from index i on; idx > MaxIdx: beyond the
\* names explored
IndexedName(d, i) ==
    LET f == [day |-> d, idx |-> i] IN
    IF i > MaxIdx THEN f
    ELSE IF ~Exists(f)
         THEN IF gz[f] = "none" THEN f ELSE IndexedName(d, i + 1)
         ELSE IF cfg.rotationSize > 0 /\ cfg.rotationSize > size[f]
              THEN f
              ELSE IndexedName(d, i + 1)

\* GetNewFileName as it would be if it tried the indexed names first and the
\* un-indexed name last
GetNewFileNameIndexedFirst ==
    LET g == IndexedName(GenerateFileNme, 1) IN
    IF g.idx <= MaxIdx THEN g ELSE [day |-> GenerateFileNme, idx |-> 0]

\* GetNewFileName as it would be if its loop started at index 2
GetNewFileNameFromTwo ==
    LET f == [day |-> GenerateFileNme, idx |-> 0] IN
    IF ~Exists(f) /\ gz[f] = "none" THEN f
    ELSE IF cfg.rotationSize <= 0 /\ gz[f] = "none" THEN f
    ELSE IF cfg.rotationSize > 0 /\ Exists(f) /\ cfg.rotationSize > size[f] THEN f
    ELSE IndexedName(GenerateFileNme, 2)

GetNewFileName ==
    LET f == [day |-> GenerateFileNme, idx |-> 0] IN
    IF ~Exists(f) /\ gz[f] = "none" THEN f
    ELSE IF cfg.rotationSize <= 0 /\ gz[f] = "none" THEN f
    ELSE IF cfg.rotationSize > 0 /\ Exists(f) /\ cfg.rotationSize > size[f] THEN f
    ELSE IndexedName(GenerateFileNme, 1)

\* the decision of getWriterNolock: forceNewFile
ForceNewFile(p) ==
    \/ ~Exists(curFn[p])
    \/ cfg.rotationSize > 0 /\ cfg.rotationSize <= size[curFn[p]]
    \/ /\ cfg.rotationTime > 0
       /\ \/ ParseTimeFromFileName(curFn[p]) = -1
          \/ CompareTimeWithDay(now - cfg.rotationTime,
                                ParseTimeFromFileName(curFn[p]))


\* ------------------------------------------------------------ file system
\* a handle whose file is unlinked keeps the unlinked file
Detach(h, F) == IF h.f \in F THEN [h EXCEPT !.att = FALSE] ELSE h

\* os.Remove of the log files F
SizeWithout(F) == [f \in Files |-> IF f \in F THEN -1 ELSE size[f]]

\* one chunk written through handle h: it reaches the directory entry only
\* while the handle's file is still linked
AppendChunk(sz, h) ==
    IF h.f \in Files /\ h.att THEN [sz EXCEPT ![h.f] = @ + 1] ELSE sz

\* ------------------------------------------------------------ initial state
NoRet == [op |-> "none", err |-> FALSE, n |-> 0, cause |-> "none"]
NoPre == [curFn |-> NoFile, outFh |-> NilFh, generation |-> 0]

\* the engines built by New from the options of C, before any call
InitWith(C) ==
    /\ cfg \in {c \in C : New(c)}
    /\ now = 1
    /\ size = [f \in Files |-> -1]
    /\ gz = [f \in Files |-> "none"]
    /\ lockf = [f \in Files |-> 0]
    /\ tmpl = [f \in Files |-> FALSE]
    /\ link = NoFile
    /\ started = [p \in Procs |-> FALSE]
    /\ curFn = [p \in Procs |-> NoFile]
    /\ outFh = [p \in Procs |-> NilFh]
    /\ generation = [p \in Procs |-> 0]
    /\ pc = [p \in Procs |-> "idle"]
    /\ op = [p \in Procs |-> "none"]
    /\ newFn = [p \in Procs |-> NoFile]
    /\ newFh = [p \in Procs |-> NilFh]
    /\ rerr = [p \in Procs |-> "none"]
    /\ pre = [p \in Procs |-> NoPre]
    /\ ret = [p \in Procs |-> NoRet]
    /\ nopen = [p \in Procs |-> 0]
    /\ wpc = [p \in Procs |-> "idle"]
    /\ wtodo = [p \in Procs |-> {}]
    /\ wcur = [p \in Procs |-> NoFile]
    /\ hsent = [p \in Procs |-> 0]
    /\ hev = [p \in Procs |-> NoEvent]
    /\ hrun = [p \in Procs |-> 0]

\* ------------------------------------------------------------ Write, Rotate
\* the call of p returns r
Return(p, r) ==
    /\ pc' = [pc EXCEPT ![p] = "idle"]
    /\ op' = [op EXCEPT ![p] = "none"]
    /\ newFn' = [newFn EXCEPT ![p] = NoFile]
    /\ newFh' = [newFh EXCEPT ![p] = NilFh]
    /\ rerr' = [rerr EXCEPT ![p] = "none"]
    /\ pre' = [pre EXCEPT ![p] = NoPre]
    /\ ret' = [ret EXCEPT ![p] = r]

\* Begin as it would be without the early return of rl.outFh: a Write that
\* needs no rotation goes on to CreateFile with the empty name
BeginWithoutEarlyReturn(p, o, created) ==
    /\ started[p] /\ pc[p] = "idle"
    /\ LET force == ForceNewFile(p)
           filename == IF force THEN GetNewFileName ELSE NoFile
       IN
       IF FALSE
       THEN \* no rotation: out.Write(p) on rl.outFh; a nil handle fails
            /\ created
            /\ outFh[p].att => size[outFh[p].f] < MaxSize
            /\ size' = AppendChunk(size, outFh[p])
            /\ Return(p, [op |-> o, err |-> outFh[p] = NilFh,
                          n |-> IF outFh[p] = NilFh THEN 0 ELSE 1,
                          cause |-> IF outFh[p] = NilFh THEN "nil" ELSE "none"])
            /\ UNCHANGED <<gz, lockf, tmpl, link, started, curFn, outFh,
                           generation, nopen>>
       ELSE IF filename = NoFile \/ ~created
       THEN \* CreateFile fails: the empty name cannot be opened
            /\ filename = NoFile => created
            /\ filename.idx <= MaxIdx
            /\ Return(p, [op |-> o, err |-> TRUE, n |-> 0, cause |-> "create"])
            /\ UNCHANGED <<fsVars, started, curFn, outFh, generation, nopen>>
       ELSE /\ filename.idx <= MaxIdx
            /\ cfg.handler => hsent[p] < MaxEvents
            /\ size' = [size EXCEPT ![filename] = IF @ < 0 THEN 0 ELSE @]
            /\ pc' = [pc EXCEPT ![p] = "lock"]
            /\ op' = [op EXCEPT ![p] = o]
            /\ newFn' = [newFn EXCEPT ![p] = filename]
            /\ newFh' = [newFh EXCEPT ![p] = [f |-> filename, att |-> TRUE]]
            /\ nopen' = [nopen EXCEPT ![p] = @ + 1]
            /\ pre' = [pre EXCEPT ![p] = [curFn |-> curFn[p], outFh |-> outFh[p],
                                          generation |-> generation[p]]]
            /\ UNCHANGED <<gz, lockf, tmpl, link, started, curFn, outFh,
                           generation, rerr, ret>>
    /\ UNCHANGED <<cfg, hVars, now, wVars>>

\* getWriterNolock up to and including CreateFile.  o: "write" is
\* getWriterNolock(false, false), "rotate" is getWriterNolock(true, true).
\* created: whether the operating system lets CreateFile open the file
Begin(p, o, created) ==
    /\ started[p] /\ pc[p] = "idle"
    /\ LET force == ForceNewFile(p)
           filename == IF force THEN GetNewFileName ELSE NoFile
       IN
       IF ~force /\ o = "write"
       THEN \* no rotation: out.Write(p) on rl.outFh; a nil handle fails
            /\ created
            /\ outFh[p].att => size[outFh[p].f] < MaxSize
            /\ size' = AppendChunk(size, outFh[p])
            /\ Return(p, [op |-> o, err |-> outFh[p] = NilFh,
                          n |-> IF outFh[p] = NilFh THEN 0 ELSE 1,
                          cause |-> IF outFh[p] = NilFh THEN "nil" ELSE "none"])
            /\ UNCHANGED <<gz, lockf, tmpl, link, started, curFn, outFh,
                           generation, nopen>>
       ELSE IF filename = NoFile \/ ~created
       THEN \* CreateFile fails: the empty name cannot be opened
            /\ filename = NoFile => created
            /\ filename.idx <= MaxIdx
            /\ Return(p, [op |-> o, err |-> TRUE, n |-> 0, cause |-> "create"])
            /\ UNCHANGED <<fsVars, started, curFn, outFh, generation, nopen>>
       ELSE /\ filename.idx <= MaxIdx
            /\ cfg.handler => hsent[p] < MaxEvents
            /\ size' = [size EXCEPT ![filename] = IF @ < 0 THEN 0 ELSE @]
            /\ pc' = [pc EXCEPT ![p] = "lock"]
            /\ op' = [op EXCEPT ![p] = o]
            /\ newFn' = [newFn EXCEPT ![p] = filename]
            /\ newFh' = [newFh EXCEPT ![p] = [f |-> filename, att |-> TRUE]]
            /\ nopen' = [nopen EXCEPT ![p] = @ + 1]
            /\ pre' = [pre EXCEPT ![p] = [curFn |-> curFn[p], outFh |-> outFh[p],
                                          generation |-> generation[p]]]
            /\ UNCHANGED <<gz, lockf, tmpl, link, started, curFn, outFh,
                           generation, rerr, ret>>
    /\ UNCHANGED <<cfg, hVars, now, wVars>>

Write(p) == \E created \in BOOLEAN : Begin(p, "write", created)
Rotate(p) == \E created \in BOOLEAN : Begin(p, "rotate", created)

\* Fail as it would be if the bail-out returned the error without fh.Close()
FailKeepsHandle(p, cause) ==
    IF op[p] = "rotate"
    THEN /\ Return(p, [op |-> "rotate", err |-> TRUE, n |-> 0, cause |-> cause])
         /\ UNCHANGED <<started, curFn, outFh, generation, nopen>>
    ELSE /\ pc' = [pc EXCEPT ![p] = "swap"]
         /\ rerr' = [rerr EXCEPT ![p] = cause]
         /\ UNCHANGED <<started, curFn, outFh, generation, op, newFn, newFh,
                        pre, ret, nopen>>

\* rotateNolock failed at the step cause: Rotate (bailOnRotateFail) closes fh
\* and returns the error, Write prints it and goes on to the swap
Fail(p, cause) ==
    IF op[p] = "rotate"
    THEN /\ Return(p, [op |-> "rotate", err |-> TRUE, n |-> 0, cause |-> cause])
         /\ nopen' = [nopen EXCEPT ![p] = @ - 1]
         /\ UNCHANGED <<started, curFn, outFh, generation>>
    ELSE /\ pc' = [pc EXCEPT ![p] = "swap"]
         /\ rerr' = [rerr EXCEPT ![p] = cause]
         /\ UNCHANGED <<started, curFn, outFh, generation, op, newFn, newFh,
                        pre, ret, nopen>>

\* guard.Run as it would be if it ran fn only once the transition had
\* succeeded (a guard that must be enabled first)
GuardRunIfEnabled(p) ==
    IF pc[p] = "unlock" /\ ~(cfg.maxAge <= 0 /\ cfg.rotationCount <= 0)
    THEN [lockf EXCEPT ![newFn[p]] = 0]
    ELSE lockf

\* guard.Run, deferred in rotateNolock: os.Remove(lockfn)
GuardRun(p) == [lockf EXCEPT ![newFn[p]] = 0]

\* Lock as it would be if rotateNolock waited for the marker to go away
LockWaits(p) ==
    /\ pc[p] = "lock"
    /\ lockf[newFn[p]] = 0
    /\ lockf' = [lockf EXCEPT ![newFn[p]] = p]
    /\ pc' = [pc EXCEPT ![p] = IF cfg.link THEN "symlink" ELSE "unlock"]
    /\ UNCHANGED <<started, curFn, outFh, generation, op, newFn, newFh,
                   rerr, pre, ret, nopen>>
    /\ UNCHANGED <<cfg, hVars, now, size, gz, tmpl, link, wVars>>

\* rotateNolock: os.OpenFile(lockfn, O_CREATE|O_EXCL)
Lock(p) ==
    /\ pc[p] = "lock"
    /\ IF lockf[newFn[p]] # 0
       THEN /\ Fail(p, "lock")
            /\ UNCHANGED lockf
       ELSE /\ lockf' = [lockf EXCEPT ![newFn[p]] = p]
            /\ pc' = [pc EXCEPT ![p] = IF cfg.link THEN "symlink" ELSE "unlock"]
            /\ UNCHANGED <<started, curFn, outFh, generation, op, newFn, newFh,
                           rerr, pre, ret, nopen>>
    /\ UNCHANGED <<cfg, hVars, now, size, gz, tmpl, link, wVars>>

\* rotateNolock: os.Symlink(linkDest, tmpLinkName)
Symlink(p) ==
    /\ pc[p] = "symlink"
    /\ IF tmpl[newFn[p]]
       THEN /\ Fail(p, "symlink")
            /\ lockf' = GuardRun(p)
            /\ UNCHANGED tmpl
       ELSE /\ tmpl' = [tmpl EXCEPT ![newFn[p]] = TRUE]
            /\ pc' = [pc EXCEPT ![p] = "rename"]
            /\ UNCHANGED <<lockf, started, curFn, outFh, generation, op, newFn,
                           newFh, rerr, pre, ret, nopen>>
    /\ UNCHANGED <<cfg, hVars, now, size, gz, link, wVars>>

\* rotateNolock: os.Rename(tmpLinkName, rl.linkName)
Rename(p) ==
    /\ pc[p] = "rename"
    /\ IF ~tmpl[newFn[p]]
       THEN /\ Fail(p, "rename")
            /\ lockf' = GuardRun(p)
            /\ UNCHANGED <<tmpl, link>>
       ELSE /\ tmpl' = [tmpl EXCEPT ![newFn[p]] = FALSE]
            /\ link' = newFn[p]
            /\ pc' = [pc EXCEPT ![p] = "unlock"]
            /\ UNCHANGED <<lockf, started, curFn, outFh, generation, op, newFn,
                           newFh, rerr, pre, ret, nopen>>
    /\ UNCHANGED <<cfg, hVars, now, size, gz, wVars>>

\* rotateNolock: the retention-policy check and the deferred guard.Run
Unlock(p) ==
    /\ pc[p] = "unlock"
    /\ lockf' = GuardRun(p)
    /\ IF cfg.maxAge <= 0 /\ cfg.rotationCount <= 0
       THEN Fail(p, "policy")
       ELSE /\ pc' = [pc EXCEPT ![p] = "swap"]
            /\ UNCHANGED <<started, curFn, outFh, generation, op, newFn, newFh,
                           rerr, pre, ret, nopen>>
    /\ UNCHANGED <<cfg, hVars, now, size, gz, tmpl, link, wVars>>

\* ------------------------------------------------------------ compression
\* compressLogFiles: the files it hands to CompressLogFiles, when it reads
\* cur as rl.curFn
SelectFiles(cur) ==
    {f \in Files : /\ Exists(f)
                   /\ ParseTimeFromFileName(f) # -1
                   /\ ~NameIsPath(f, cur)
                   /\ ~IsToday(ParseTimeFromFileName(f), now)}

\* the order of filepath.Glob: by date, and within a date the indexed names
\* ("...-01.1.log") before the plain one ("...-01.log")
GlobBefore(f, g) ==
    \/ f.day < g.day
    \/ f.day = g.day /\ f.idx # 0 /\ (g.idx = 0 \/ f.idx < g.idx)
FirstOf(S) == CHOOSE f \in S : \A g \in S \ {f} : GlobBefore(f, g)

\* go rl.compressLogFiles(): the goroutine of p starts; it has not yet read
\* rl.curFn.  One goroutine per engine is followed: while it runs, a further
\* one is not scheduled
Spawn(p) ==
    IF wpc[p] = "idle"
    THEN /\ wpc' = [wpc EXCEPT ![p] = "select"]
         /\ UNCHANGED <<wtodo, wcur>>
    ELSE UNCHANGED wVars

\* the same goroutine when it runs its selection before getWriterNolock
\* assigns rl.curFn: it reads the previous path
SpawnSelected(p) ==
    IF wpc[p] = "idle"
    THEN /\ wpc' = [wpc EXCEPT ![p] = "next"]
         /\ wtodo' = [wtodo EXCEPT ![p] = SelectFiles(curFn[p])]
         /\ UNCHANGED wcur
    ELSE UNCHANGED wVars

\* compressLogFiles: Glob and the selection loop.  It reads rl.curFn without
\* rl.mutex
WSelect(p) ==
    /\ wpc[p] = "select"
    /\ wtodo' = [wtodo EXCEPT ![p] = SelectFiles(curFn[p])]
    /\ wpc' = [wpc EXCEPT ![p] = "next"]
    /\ UNCHANGED <<cfg, hVars, now, fsVars, rlVars, wcur>>

\* CompressLogFiles: the next file of the loop, its two os.Stat checks, and
\* compressLogFile up to os.Stat(src)
WNext(p) ==
    /\ wpc[p] = "next"
    /\ IF wtodo[p] = {}
       THEN /\ wpc' = [wpc EXCEPT ![p] = "idle"]
            /\ UNCHANGED <<wtodo, wcur>>
       ELSE LET f == FirstOf(wtodo[p]) IN
            /\ wtodo' = [wtodo EXCEPT ![p] = @ \ {f}]
            /\ IF Exists(f) /\ gz[f] = "none"
               THEN /\ wcur' = [wcur EXCEPT ![p] = f]
                    /\ wpc' = [wpc EXCEPT ![p] = "opened"]
               ELSE UNCHANGED <<wpc, wcur>>
    /\ UNCHANGED <<cfg, hVars, now, fsVars, rlVars>>

\* compressLogFile: os.OpenFile(dst, O_CREATE|O_TRUNC|O_WRONLY)
WCreate(p) ==
    /\ wpc[p] = "opened"
    /\ gz' = [gz EXCEPT ![wcur[p]] = "partial"]
    /\ wpc' = [wpc EXCEPT ![p] = "created"]
    /\ UNCHANGED <<cfg, hVars, now, size, lockf, tmpl, link, rlVars, wtodo, wcur>>

\* WCopy as it would be if compressLogFile ignored the error of io.Copy and
\* of the two Close calls
WCopyIgnoringError(p, ok) ==
    /\ wpc[p] = "created"
    /\ gz' = [gz EXCEPT ![wcur[p]] =
                 IF @ = "none" THEN "none" ELSE IF ok THEN "full" ELSE "partial"]
    /\ wpc' = [wpc EXCEPT ![p] = "copied"]
    /\ UNCHANGED <<cfg, hVars, now, size, lockf, tmpl, link, rlVars, wtodo, wcur>>

\* compressLogFile: io.Copy, gz.Close, gzf.Close.  ok: none of them fails;
\* on a failure the deferred function removes dst and the loop goes on
WCopy(p, ok) ==
    /\ wpc[p] = "created"
    /\ IF ok
       THEN /\ gz' = [gz EXCEPT ![wcur[p]] = IF @ = "none" THEN "none" ELSE "full"]
            /\ wpc' = [wpc EXCEPT ![p] = "copied"]
            /\ UNCHANGED wcur
       ELSE /\ gz' = [gz EXCEPT ![wcur[p]] = "none"]
            /\ wpc' = [wpc EXCEPT ![p] = "next"]
            /\ wcur' = [wcur EXCEPT ![p] = NoFile]
    /\ UNCHANGED <<cfg, hVars, now, size, lockf, tmpl, link, rlVars, wtodo>>

\* compressLogFile: f.Close and os.Remove(src); when src is gone the error
\* makes the deferred function remove dst.  CompressLogFiles then calls
\* os.Remove(f) on the base name, which names src (already removed) or, with
\* a directory in filePath, no family file
WRemove(p) ==
    /\ wpc[p] = "copied"
    /\ IF Exists(wcur[p])
       THEN /\ size' = SizeWithout({wcur[p]})
            /\ outFh' = [q \in Procs |-> Detach(outFh[q], {wcur[p]})]
            /\ newFh' = [q \in Procs |-> Detach(newFh[q], {wcur[p]})]
            /\ UNCHANGED gz
       ELSE /\ gz' = [gz EXCEPT ![wcur[p]] = "none"]
            /\ UNCHANGED <<size, outFh, newFh>>
    /\ wpc' = [wpc EXCEPT ![p] = "next"]
    /\ wcur' = [wcur EXCEPT ![p] = NoFile]
    /\ UNCHANGED <<cfg, hVars, now, lockf, tmpl, link, started, curFn, generation, pc,
                   op, newFn, rerr, pre, ret, nopen, wtodo>>

\* ------------------------------------------------------------ the swap
\* Swap as it would be without rl.outFh.Close(): the previous handle stays open
SwapKeepsPrevious(p, early) ==
    /\ pc[p] = "swap"
    /\ IF early THEN SpawnSelected(p) ELSE Spawn(p)
    /\ UNCHANGED nopen
    /\ outFh' = [outFh EXCEPT ![p] = newFh[p]]
    /\ curFn' = [curFn EXCEPT ![p] = newFn[p]]
    /\ generation' = [generation EXCEPT ![p] = pre[p].generation]
    /\ IF op[p] = "write"
       THEN /\ newFh[p].att => size[newFn[p]] < MaxSize
            /\ size' = AppendChunk(size, newFh[p])
       ELSE UNCHANGED size
    /\ IF cfg.handler
       THEN /\ hsent' = [hsent EXCEPT ![p] = @ + 1]
            /\ hev' = [hev EXCEPT ![p] = [prev |-> pre[p].curFn,
                                          current |-> newFn[p]]]
            /\ hrun' = [hrun EXCEPT ![p] = @ + 1]
       ELSE UNCHANGED hVars
    /\ Return(p, [op |-> op[p], err |-> FALSE,
                  n |-> IF op[p] = "write" THEN 1 ELSE 0, cause |-> rerr[p]])
    /\ UNCHANGED <<cfg, now, gz, lockf, tmpl, link, started>>

\* Swap as it would be if the event went to the handler through a hand-over
\* that waits until the previous invocation of h.Handle has returned
SwapWaitsForHandler(p, early) ==
    /\ pc[p] = "swap"
    /\ cfg.handler => hrun[p] = 0
    /\ IF early THEN SpawnSelected(p) ELSE Spawn(p)
    /\ nopen' = [nopen EXCEPT ![p] = IF outFh[p] = NilFh THEN @ ELSE @ - 1]
    /\ outFh' = [outFh EXCEPT ![p] = newFh[p]]
    /\ curFn' = [curFn EXCEPT ![p] = newFn[p]]
    /\ generation' = [generation EXCEPT ![p] = pre[p].generation]
    /\ IF op[p] = "write"
       THEN /\ newFh[p].att => size[newFn[p]] < MaxSize
            /\ size' = AppendChunk(size, newFh[p])
       ELSE UNCHANGED size
    /\ IF cfg.handler
       THEN /\ hsent' = [hsent EXCEPT ![p] = @ + 1]
            /\ hev' = [hev EXCEPT ![p] = [prev |-> pre[p].curFn,
                                          current |-> newFn[p]]]
            /\ hrun' = [hrun EXCEPT ![p] = @ + 1]
       ELSE UNCHANGED hVars
    /\ Return(p, [op |-> op[p], err |-> FALSE,
                  n |-> IF op[p] = "write" THEN 1 ELSE 0, cause |-> rerr[p]])
    /\ UNCHANGED <<cfg, now, gz, lockf, tmpl, link, started>>

\* getWriterNolock after rotateNolock: rl.outFh.Close(), the compression
\* goroutine, the new handle, path and generation; then Write writes the
\* bytes to the handle returned.  early: the goroutine reads rl.curFn before
\* the assignment of this swap (the read is not synchronised).  With a handler
\* registered, go h.Handle(...) starts a goroutine with the event
Swap(p, early) ==
    /\ pc[p] = "swap"
    /\ IF early THEN SpawnSelected(p) ELSE Spawn(p)
    /\ nopen' = [nopen EXCEPT ![p] = IF outFh[p] = NilFh THEN @ ELSE @ - 1]
    /\ outFh' = [outFh EXCEPT ![p] = newFh[p]]
    /\ curFn' = [curFn EXCEPT ![p] = newFn[p]]
    /\ generation' = [generation EXCEPT ![p] = pre[p].generation]
    /\ IF op[p] = "write"
       THEN /\ newFh[p].att => size[newFn[p]] < MaxSize
            /\ size' = AppendChunk(size, newFh[p])
       ELSE UNCHANGED size
    /\ IF cfg.handler
       THEN /\ hsent' = [hsent EXCEPT ![p] = @ + 1]
            /\ hev' = [hev EXCEPT ![p] = [prev |-> pre[p].curFn,
                                          current |-> newFn[p]]]
            /\ hrun' = [hrun EXCEPT ![p] = @ + 1]
       ELSE UNCHANGED hVars
    /\ Return(p, [op |-> op[p], err |-> FALSE,
                  n |-> IF op[p] = "write" THEN 1 ELSE 0, cause |-> rerr[p]])
    /\ UNCHANGED <<cfg, now, gz, lockf, tmpl, link, started>>

\* Close as it would be without the assignment rl.outFh = nil
CloseKeepsHandle(p) ==
    /\ started[p] /\ pc[p] = "idle"
    /\ nopen' = [nopen EXCEPT ![p] = IF outFh[p] = NilFh THEN @ ELSE @ - 1]
    /\ ret' = [ret EXCEPT ![p] = [NoRet EXCEPT !.op = "close"]]
    /\ UNCHANGED <<cfg, hVars, now, fsVars, started, curFn, outFh, generation, pc, op,
                   newFn, newFh, rerr, pre, wVars>>

\* Close: on a nil handle it returns nil at once
Close(p) ==
    /\ started[p] /\ pc[p] = "idle"
    /\ nopen' = [nopen EXCEPT ![p] = IF outFh[p] = NilFh THEN @ ELSE @ - 1]
    /\ outFh' = [outFh EXCEPT ![p] = NilFh]
    /\ ret' = [ret EXCEPT ![p] = [NoRet EXCEPT !.op = "close"]]
    /\ UNCHANGED <<cfg, hVars, now, fsVars, started, curFn, generation, pc, op, newFn,
                   newFh, rerr, pre, wVars>>

\* a goroutine of h.Handle returns; nothing in the engine waits for it
HandlerReturns(p) ==
    /\ hrun[p] > 0
    /\ hrun' = [hrun EXCEPT ![p] = @ - 1]
    /\ UNCHANGED <<cfg, now, fsVars, rlVars, wVars, hsent, hev>>

\* ------------------------------------------------------------ maintenance
\* deleteFile's test on one path (a log file or its .gz): the date in the
\* name parses and is before the date of now - maxAge
Expired(f) ==
    /\ ParseTimeFromFileName(f) # -1
    /\ IsMaxDay(now - cfg.maxAge, ParseTimeFromFileName(f))

\* deleteFile: the log files and the compressed files left
deleteFileSize ==
    [f \in Files |-> IF cfg.maxAge > 0 /\ Expired(f) THEN -1 ELSE size[f]]
deleteFileGz ==
    [f \in Files |-> IF cfg.maxAge > 0 /\ Expired(f) THEN "none" ELSE gz[f]]

\* deleteSameLogFile on the directory (sz, g): a log file goes when a file
\* with its name plus ".gz" is listed
deleteSameLogFile(sz, g) ==
    [f \in Files |-> IF g[f] # "none" THEN -1 ELSE sz[f]]

\* the log files that exist now and not in sz
Gone(sz) == {f \in Files : size[f] >= 0 /\ sz[f] < 0}

\* cronFunc: deleteFile, then with compressFile deleteSameLogFile and
\* compressLogFiles (the goroutine of the pass carries on with it)
cronFunc(p) ==
    LET sz1 == IF cfg.maxAge > 0 THEN deleteFileSize ELSE size
        gz1 == IF cfg.maxAge > 0 THEN deleteFileGz ELSE gz
        sz2 == IF cfg.compress THEN deleteSameLogFile(sz1, gz1) ELSE sz1
    IN  /\ size' = sz2
        /\ gz' = gz1
        /\ outFh' = [q \in Procs |-> Detach(outFh[q], Gone(sz2))]
        /\ newFh' = [q \in Procs |-> Detach(newFh[q], Gone(sz2))]
        /\ IF cfg.compress THEN Spawn(p) ELSE UNCHANGED wVars

\* a pass started by the schedule registered in cronTask
Cron(p) ==
    /\ cfg.cron
    /\ started[p] \/ pc[p] = "init"
    /\ cronFunc(p)
    /\ UNCHANGED <<cfg, hVars, now, lockf, tmpl, link, started, curFn, generation, pc,
                   op, newFn, rerr, pre, ret, nopen>>

\* deleteLockSymlinkFile
deleteLockSymlinkFile ==
    /\ lockf' = [f \in Files |-> 0]
    /\ tmpl' = [f \in Files |-> FALSE]

\* Init with a schedule: cronTask, and cronFunc up to the start of its
\* compression pass
InitCron(p) ==
    /\ ~started[p] /\ pc[p] = "idle"
    /\ cfg.cron
    /\ cronFunc(p)
    /\ IF cfg.compress
       THEN /\ pc' = [pc EXCEPT ![p] = "init"]
            /\ op' = [op EXCEPT ![p] = "init"]
            /\ UNCHANGED <<lockf, tmpl, started>>
       ELSE /\ deleteLockSymlinkFile
            /\ started' = [started EXCEPT ![p] = TRUE]
            /\ UNCHANGED <<pc, op>>
    /\ UNCHANGED <<cfg, hVars, now, link, curFn, generation, newFn, rerr, pre, ret,
                   nopen>>

\* Init: the end of the synchronous cronFunc, then deleteLockSymlinkFile;
\* without a schedule deleteLockSymlinkFile is all Init does
InitEnd(p) ==
    /\ \/ pc[p] = "init" /\ wpc[p] = "idle"
       \/ ~started[p] /\ pc[p] = "idle" /\ ~cfg.cron
    /\ deleteLockSymlinkFile
    /\ started' = [started EXCEPT ![p] = TRUE]
    /\ pc' = [pc EXCEPT ![p] = "idle"]
    /\ op' = [op EXCEPT ![p] = "none"]
    /\ UNCHANGED <<cfg, hVars, now, size, gz, link, curFn, outFh, generation, newFn,
                   newFh, rerr, pre, ret, nopen, wVars>>

\* ------------------------------------------------------------ environment
\* the clock reaches the next day
Tick ==
    /\ now < MaxDay
    /\ now' = now + 1
    /\ UNCHANGED <<cfg, fsVars, rlVars, wVars, hVars>>

\* ------------------------------------------------------------ specifications
\* the steps of the engines P: the calls and the steps of a rotation
Calls(P) ==
    \/ \E p \in P : InitCron(p)
    \/ \E p \in P : InitEnd(p)
    \/ \E p \in P : Write(p)
    \/ \E p \in P : Rotate(p)
    \/ \E p \in P : Lock(p)
    \/ \E p \in P : Unlock(p)

Linking(P) ==
    \/ \E p \in P : Symlink(p)
    \/ \E p \in P : Rename(p)

Compression(P) ==
    \/ \E p \in P : WSelect(p)
    \/ \E p \in P : WNext(p)
    \/ \E p \in P : WCreate(p)
    \/ \E p \in P, ok \in BOOLEAN : WCopy(p, ok)
    \/ \E p \in P : WRemove(p)

\* one engine with its maintenance, over several days, time.Local not ahead
\* of UTC
Init ==
    InitWith({c \in Configs : ~c.utc /\ ~c.east /\ ~c.link /\ ~c.handler})
Next ==
    \/ Calls({1})
    \/ \E early \in BOOLEAN : Swap(1, early)
    \/ Compression({1})
    \/ Close(1)
    \/ Cron(1)
    \/ Tick
Spec == Init /\ [][Next]_vars

\* one engine that compresses, without size rotation
InitCompress ==
    InitWith({c \in Configs : ~c.utc /\ ~c.east /\ ~c.link /\ c.dir
                              /\ ~c.handler
                              /\ c.compress /\ c.rotationSize = 0})
NextCompress ==
    \/ Calls({1})
    \/ \E early \in BOOLEAN : Swap(1, early)
    \/ Compression({1})
    \/ Cron(1)
    \/ Tick
SpecCompress == InitCompress /\ [][NextCompress]_vars

\* two engines (processes) on one family, within one day: the rotation
\* transition and its markers; their compression goroutines are not followed
InitShared ==
    InitWith({c \in Configs : /\ ~c.utc /\ c.dir /\ ~c.compress /\ ~c.east
                              /\ ~c.handler})
NextShared ==
    \/ Calls(Procs)
    \/ Linking(Procs)
    \/ \E p \in Procs : Swap(p, FALSE)
SpecShared == InitShared /\ [][NextShared]_vars

\* one engine with time rotation, in every zone: the offset of time.Local is
\* read only when the day of a local clock's file name is compared
InitTime ==
    InitWith({c \in Configs : /\ c.rotationTime > 0 /\ c.dir /\ ~c.link
                              /\ ~c.handler
                              /\ (c.east => ~c.utc)})
NextTime ==
    \/ Calls({1})
    \/ Swap(1, FALSE)
    \/ Compression({1})
    \/ Cron(1)
    \/ Tick
SpecTime == InitTime /\ [][NextTime]_vars

\* GetNewFileName alone, on every directory that holds files of the current
\* bucket, compressed or not
InitName ==
    /\ cfg \in {c \in Configs : /\ New(c)
                                /\ c.dir /\ ~c.link /\ ~c.east /\ ~c.compress
                                /\ ~c.handler}
    /\ now \in 1 .. MaxDay
    /\ \E s \in [0 .. MaxIdx -> -1 .. MaxSize] :
          size = [f \in Files |->
                     IF f.day = GenerateFileNme THEN s[f.idx] ELSE -1]
    /\ \E g \in [0 .. MaxIdx -> {"none", "full"}] :
          gz = [f \in Files |->
                   IF f.day = GenerateFileNme THEN g[f.idx] ELSE "none"]
    /\ lockf = [f \in Files |-> 0]
    /\ tmpl = [f \in Files |-> FALSE]
    /\ link = NoFile
    /\ started = [p \in Procs |-> TRUE]
    /\ curFn = [p \in Procs |-> NoFile]
    /\ outFh = [p \in Procs |-> NilFh]
    /\ generation = [p \in Procs |-> 0]
    /\ pc = [p \in Procs |-> "idle"]
    /\ op = [p \in Procs |-> "none"]
    /\ newFn = [p \in Procs |-> NoFile]
    /\ newFh = [p \in Procs |-> NilFh]
    /\ rerr = [p \in Procs |-> "none"]
    /\ pre = [p \in Procs |-> NoPre]
    /\ ret = [p \in Procs |-> NoRet]
    /\ nopen = [p \in Procs |-> 0]
    /\ wpc = [p \in Procs |-> "idle"]
    /\ wtodo = [p \in Procs |-> {}]
    /\ wcur = [p \in Procs |-> NoFile]
    /\ hsent = [p \in Procs |-> 0]
    /\ hev = [p \in Procs |-> NoEvent]
    /\ hrun = [p \in Procs |-> 0]

\* the call fileutil.GetNewFileName(...) of getWriterNolock, by itself
GetName(p) ==
    /\ pc[p] = "idle"
    /\ pc' = [pc EXCEPT ![p] = "named"]
    /\ newFn' = [newFn EXCEPT ![p] = GetNewFileName]
    /\ UNCHANGED <<cfg, hVars, now, fsVars, started, curFn, outFh, generation, op,
                   newFh, rerr, pre, ret, nopen, wVars>>

NextName == GetName(1)
SpecName == InitName /\ [][NextName]_vars

\* one engine with size rotation and retention, started in a directory that
\* may hold archives of the first day left by an earlier run
InitRotate ==
    /\ cfg \in {c \in Configs : New(c) /\ ~c.utc /\ ~c.east /\ ~c.link /\ c.dir
                                /\ c.rotationSize > 0 /\ ~c.compress
                                /\ ~c.handler}
    /\ now = 1
    /\ size = [f \in Files |-> -1]
    /\ \E g \in [0..MaxIdx -> {"none", "full"}] :
          gz = [f \in Files |-> IF f.day = 1 THEN g[f.idx] ELSE "none"]
    /\ lockf = [f \in Files |-> 0]
    /\ tmpl = [f \in Files |-> FALSE]
    /\ link = NoFile
    /\ started = [p \in Procs |-> FALSE]
    /\ curFn = [p \in Procs |-> NoFile]
    /\ outFh = [p \in Procs |-> NilFh]
    /\ generation = [p \in Procs |-> 0]
    /\ pc = [p \in Procs |-> "idle"]
    /\ op = [p \in Procs |-> "none"]
    /\ newFn = [p \in Procs |-> NoFile]
    /\ newFh = [p \in Procs |-> NilFh]
    /\ rerr = [p \in Procs |-> "none"]
    /\ pre = [p \in Procs |-> NoPre]
    /\ ret = [p \in Procs |-> NoRet]
    /\ nopen = [p \in Procs |-> 0]
    /\ wpc = [p \in Procs |-> "idle"]
    /\ wtodo = [p \in Procs |-> {}]
    /\ wcur = [p \in Procs |-> NoFile]
    /\ hsent = [p \in Procs |-> 0]
    /\ hev = [p \in Procs |-> NoEvent]
    /\ hrun = [p \in Procs |-> 0]

NextRotate == Calls({1}) \/ Swap(1, FALSE) \/ Cron(1) \/ Close(1) \/ Tick
SpecRotate == InitRotate /\ [][NextRotate]_vars

\* what an earlier run, ended at any point, may have left of one file: the
\* original (size 1) or nothing, and beside it no, a partly written or a
\* complete compressed sibling; a partly written one only beside its original
Leftovers ==
    {l \in [size : {-1, 1}, gz : {"none", "partial", "full"}] :
        l.gz = "partial" => l.size >= 0}

\* one engine that compresses, started on the second day in a directory that
\* holds what an earlier run left of the files of the first day
InitStartup ==
    /\ cfg \in {c \in Configs : /\ New(c) /\ ~c.utc /\ ~c.east /\ ~c.link
                                /\ c.dir /\ ~c.handler /\ c.compress
                                /\ c.rotationSize = 0}
    /\ now = 2
    /\ \E l \in [0 .. MaxIdx -> Leftovers] :
          /\ size = [f \in Files |-> IF f.day = 1 THEN l[f.idx].size ELSE -1]
          /\ gz = [f \in Files |-> IF f.day = 1 THEN l[f.idx].gz ELSE "none"]
    /\ lockf = [f \in Files |-> 0]
    /\ tmpl = [f \in Files |-> FALSE]
    /\ link = NoFile
    /\ started = [p \in Procs |-> FALSE]
    /\ curFn = [p \in Procs |-> NoFile]
    /\ outFh = [p \in Procs |-> NilFh]
    /\ generation = [p \in Procs |-> 0]
    /\ pc = [p \in Procs |-> "idle"]
    /\ op = [p \in Procs |-> "none"]
    /\ newFn = [p \in Procs |-> NoFile]
    /\ newFh = [p \in Procs |-> NilFh]
    /\ rerr = [p \in Procs |-> "none"]
    /\ pre = [p \in Procs |-> NoPre]
    /\ ret = [p \in Procs |-> NoRet]
    /\ nopen = [p \in Procs |-> 0]
    /\ wpc = [p \in Procs |-> "idle"]
    /\ wtodo = [p \in Procs |-> {}]
    /\ wcur = [p \in Procs |-> NoFile]
    /\ hsent = [p \in Procs |-> 0]
    /\ hev = [p \in Procs |-> NoEvent]
    /\ hrun = [p \in Procs |-> 0]
NextStartup ==
    \/ Calls({1})
    \/ Swap(1, FALSE)
    \/ Compression({1})
    \/ Cron(1)
    \/ Tick
SpecStartup == InitStartup /\ [][NextStartup]_vars

\* one engine with a registered event handler
InitEvent ==
    InitWith({c \in Configs : /\ c.handler /\ ~c.utc /\ ~c.east /\ ~c.link
                              /\ c.dir /\ ~c.compress})
NextEvent ==
    \/ Calls({1})
    \/ Swap(1, FALSE)
    \/ HandlerReturns(1)
    \/ Cron(1)
    \/ Tick
SpecEvent == InitEvent /\ [][NextEvent]_vars

\* the same engine when the goroutine that runs a call is scheduled until the
\* call returns; nothing is assumed about the handler's goroutines
SpecEventFair ==
    /\ SpecEvent
    /\ WF_vars(Lock(1))
    /\ WF_vars(Unlock(1))
    /\ WF_vars(Swap(1, FALSE))

\* engine 1 with its maintenance beside a second process that rotates the
\* same family, started on the third day in a directory that may hold log
\* files of the two days before; the goroutine that runs a call of engine 1 is
\* scheduled until the call returns, nothing is assumed about the other
\* process, the compression goroutine or the schedule: each may stop anywhere
\* for ever
InitWait ==
    /\ cfg \in {c \in Configs : /\ New(c) /\ ~c.utc /\ ~c.east /\ c.dir
                                /\ ~c.handler /\ ~c.compress /\ c.cron
                                /\ c.rotationCount = 0}
    /\ now = 3
    /\ \E l \in [1 .. 2 -> {-1, 1}] :
          size = [f \in Files |-> IF f.day \in 1 .. 2 /\ f.idx = 0
                                  THEN l[f.day] ELSE -1]
    /\ gz = [f \in Files |-> "none"]
    /\ lockf = [f \in Files |-> 0]
    /\ tmpl = [f \in Files |-> FALSE]
    /\ link = NoFile
    /\ started = [p \in Procs |-> FALSE]
    /\ curFn = [p \in Procs |-> NoFile]
    /\ outFh = [p \in Procs |-> NilFh]
    /\ generation = [p \in Procs |-> 0]
    /\ pc = [p \in Procs |-> "idle"]
    /\ op = [p \in Procs |-> "none"]
    /\ newFn = [p \in Procs |-> NoFile]
    /\ newFh = [p \in Procs |-> NilFh]
    /\ rerr = [p \in Procs |-> "none"]
    /\ pre = [p \in Procs |-> NoPre]
    /\ ret = [p \in Procs |-> NoRet]
    /\ nopen = [p \in Procs |-> 0]
    /\ wpc = [p \in Procs |-> "idle"]
    /\ wtodo = [p \in Procs |-> {}]
    /\ wcur = [p \in Procs |-> NoFile]
    /\ hsent = [p \in Procs |-> 0]
    /\ hev = [p \in Procs |-> NoEvent]
    /\ hrun = [p \in Procs |-> 0]
NextWait ==
    \/ \E p \in Procs : InitCron(p)
    \/ Write(1)
    \/ \E p \in Procs : Rotate(p)
    \/ \E p \in Procs : Lock(p)
    \/ \E p \in Procs : Unlock(p)
    \/ Linking(Procs)
    \/ \E p \in Procs : Swap(p, FALSE)
    \/ Compression({1})
SpecWait == InitWait /\ [][NextWait]_vars
SpecWaitFair ==
    /\ SpecWait
    /\ WF_vars(Lock(1))
    /\ WF_vars(Symlink(1))
    /\ WF_vars(Rename(1))
    /\ WF_vars(Unlock(1))
    /\ WF_vars(Swap(1, FALSE))

\* ------------------------------------------------------------ claims
\* C1: a retention pass (deleteFile, run from cronFunc) never removes the
\* path that CurrentFileName() returns at the time of the pass, even when the
\* date in its name is before the cutoff now - maxAge.
C1_ActiveFileKept ==
    [][\A p \in Procs :
          (Cron(p) \/ InitCron(p)) => curFn[p] \notin Gone(deleteFileSize)]_vars

\* C2: compressLogFiles never selects the file that is receiving writes
\* (rl.curFn), also when the date in its name is not today's.
C2_ActiveNeverSelected ==
    [][\A p \in Procs :
          WSelect(p) => \A q \in Procs : curFn[q] \notin wtodo'[p]]_vars

\* C3: every step of a compression run over a file that still has its
\* original leaves the original or a completely written compressed sibling
\* (so does an interruption after any step), and the step that removes the
\* original is the one after the stream was closed without error, with the
\* sibling complete.
C3_CopySurvives ==
    [][\A p \in Procs :
          (wpc[p] \in {"opened", "created", "copied"} /\ wpc'[p] # wpc[p]
           /\ Exists(wcur[p]))
          => /\ size'[wcur[p]] >= 0 \/ gz'[wcur[p]] = "full"
             /\ size'[wcur[p]] < 0
                  => wpc[p] = "copied" /\ gz[wcur[p]] = "full"]_vars

\* a run has removed an original and left its complete compressed sibling
C3_Witness == \E f \in Files : ~Exists(f) /\ gz[f] = "full"

\* a Write of p returns in this step
WriteReturns(p) ==
    \/ Write(p) /\ pc'[p] = "idle"
    \/ op[p] = "write" /\ \E early \in BOOLEAN : Swap(p, early)

\* C4: every Write after the first successful write and before Close appends
\* its bytes to an open family file and reports them as written, also when
\* the rotation it needs cannot be carried out.
C4_WriteNeverLost ==
    [][\A p \in Procs :
          (WriteReturns(p) /\ outFh[p] # NilFh)
          => /\ ~ret'[p].err /\ ret'[p].n = 1
             /\ \E f \in Files : size'[f] = size[f] + 1]_vars

\* C5: when a Write needs a rotation and the lock marker of the target is
\* already there, the engine keeps its previous handle and path, and the bytes
\* go to the previous active file.
C5_LockFailKeepsPrevious ==
    [][\A p \in Procs :
          (op[p] = "write" /\ rerr[p] = "lock" /\ outFh[p] # NilFh
           /\ Swap(p, FALSE))
          => /\ curFn'[p] = curFn[p]
             /\ outFh'[p] = outFh[p]
             /\ size'[curFn[p]] = size[curFn[p]] + 1]_vars

\* p is between creating and removing the lock marker in rotateNolock
InTransition(p) == pc[p] \in {"symlink", "rename", "unlock"}

\* C6: two engines on one family are never both inside the rotation
\* transition for the same target path.
C6_MutualExclusion ==
    \A p, q \in Procs :
        (p # q /\ InTransition(p) /\ InTransition(q)) => newFn[p] # newFn[q]

C9_RotateAlwaysRotates ==
    [][\A p \in Procs :
          (Rotate(p) /\ Exists(curFn[p]) /\ ~ForceNewFile(p)
           /\ \A f \in Files : lockf[f] = 0)
          => pc'[p] = "lock" /\ newFn'[p] # curFn[p]]_vars

\* C10: a successful rotation leaves the generation strictly greater than it
\* was before.
C10_GenerationIncreases ==
    [][\A p \in Procs :
          (pc[p] = "swap" /\ rerr[p] = "none" /\ pc'[p] = "idle")
          => generation'[p] > generation[p]]_vars

\* C11: the value CurrentFileName() returns changes in every Write/Rotate call
\* that completes a successful rotation, and in no other call.
C11_PathChangesOnlyOnSuccess ==
    [][\A p \in Procs :
          /\ (pc[p] = "swap" /\ rerr[p] = "none" /\ pc'[p] = "idle")
                => curFn'[p] # curFn[p]
          /\ curFn'[p] # curFn[p]
                => pc[p] = "swap" /\ rerr[p] = "none" /\ pc'[p] = "idle"]_vars

\* the active file of p exists and has reached the size threshold
AtThreshold(p) ==
    /\ cfg.rotationSize > 0
    /\ Exists(curFn[p])
    /\ size[curFn[p]] >= cfg.rotationSize

\* C12: with size rotation, a Write called when the active file has reached
\* the threshold directs its bytes to a file that did not exist before the
\* call, and not to the file that reached the threshold.
C12_ThresholdWriteGoesToNewFile ==
    [][\A p \in Procs :
          (AtThreshold(p) /\ Write(p) /\ pc'[p] = "lock")
          => ~Exists(newFn'[p]) /\ newFn'[p] # curFn[p]]_vars

\* C13: from an empty directory with size threshold T, after a first Write
\* of a < T, a second Write of b with a + b >= T goes to a new file: the
\* first file keeps exactly its a bytes (a Write is one chunk here, so a = b
\* = 1 and T = 2).
C13_CrossingWriteGoesToNewFile ==
    [][\A p \in Procs :
          (/\ cfg.rotationSize > 0
           /\ {f \in Files : Exists(f)} = {curFn[p]}
           /\ outFh[p] = [f |-> curFn[p], att |-> TRUE]
           /\ size[curFn[p]] < cfg.rotationSize
           /\ size[curFn[p]] + 1 >= cfg.rotationSize
           /\ Write(p))
          => /\ size'[curFn[p]] = size[curFn[p]]
             /\ Cardinality({f \in Files : size'[f] >= 0}) = 2]_vars

\* C14: with time rotation of period P days, a Write on an existing active
\* file below the size threshold rotates if and only if the clock is at least
\* P days after the start of the day in the active file's name, or the name
\* cannot be parsed; with P = 1 the first Write on the next day rotates.
C14_RotatesAfterPeriod ==
    [][\A p \in Procs :
          (/\ cfg.rotationTime > 0
           /\ Exists(curFn[p]) /\ ~AtThreshold(p)
           /\ outFh[p] # NilFh
           /\ Write(p))
          => ((pc'[p] = "lock" \/ ret'[p].cause = "create")
              <=> \/ ParseTimeFromFileName(curFn[p]) = -1
                  \/ now - cfg.rotationTime
                        >= ParseTimeFromFileName(curFn[p]))]_vars

\* the candidate names of the current bucket, in the order of their index
\* (0: the un-indexed name)
Candidate(i) == [day |-> GenerateFileNme, idx |-> i]

\* a candidate GetNewFileName may return: a name that is free (no file and no
\* compressed sibling), a file below the size threshold, or, without size
\* rotation, the un-indexed name without compressed sibling.  Names beyond
\* MaxIdx are free
Eligible(f) ==
    \/ f \notin Files
    \/ ~Exists(f) /\ gz[f] = "none"
    \/ Exists(f) /\ cfg.rotationSize > 0 /\ cfg.rotationSize > size[f]
    \/ f.idx = 0 /\ cfg.rotationSize <= 0 /\ gz[f] = "none"

\* C15: GetNewFileName tries the un-indexed name and then the indices 1, 2,
\* ... in ascending order and returns the first eligible candidate; when the
\* un-indexed name and the indices 1..k all exist and are not eligible and the
\* name of index k+1 is free, it returns index k+1.
C15_FirstEligibleAscending ==
    \A p \in Procs :
        pc[p] = "named" =>
            /\ newFn[p] = Candidate(newFn[p].idx)
            /\ Eligible(newFn[p])
            /\ \A i \in 0 .. newFn[p].idx - 1 : ~Eligible(Candidate(i))
            /\ \A k \in 0 .. MaxIdx :
                  (/\ \A i \in 0 .. k : /\ Exists(Candidate(i))
                                        /\ ~Eligible(Candidate(i))
                   /\ k < MaxIdx => /\ ~Exists(Candidate(k + 1))
                                    /\ gz[Candidate(k + 1)] = "none")
                  => newFn[p].idx = k + 1

\* the un-indexed name and index 1 exist and are not eligible: index 2
C15_Witness ==
    \E p \in Procs :
        /\ pc[p] = "named"
        /\ \A i \in 0 .. 1 : Exists(Candidate(i)) /\ ~Eligible(Candidate(i))
        /\ newFn[p].idx = 2

\* the name g comes after the name f: a later bucket, or the same bucket
\* and a higher index
After(g, f) == g.day > f.day \/ (g.day = f.day /\ g.idx > f.idx)

\* C16: an engine never adopts as active path a (bucket, index) name that it
\* has used as active path and left: whenever its active path changes from
\* one name to another, the new name comes after the old one, so the names
\* it adopts are strictly ascending and none is adopted twice.
C16_NamesAscend ==
    [][\A p \in Procs :
          (curFn[p] # NoFile /\ curFn'[p] # curFn[p])
          => After(curFn'[p], curFn[p])]_vars

\* an engine has left a name for a higher index of the same bucket
C16_Witness ==
    \E p \in Procs : /\ curFn[p] \in Files /\ curFn[p].idx > 0
                     /\ Exists([curFn[p] EXCEPT !.idx = 0])
                     /\ pc[p] = "idle" /\ ret[p].op \in {"write", "rotate"}

\* C17: with maxAge = A days, the deleteFile of a retention pass removes
\* exactly the family files, compressed or not, whose name holds a date
\* strictly before the date of now - A, and leaves every other file.
C17_RetentionByDate ==
    [][\A p \in Procs :
          ((Cron(p) \/ InitCron(p)) /\ cfg.maxAge > 0)
          => \A f \in Files :
                /\ deleteFileSize[f] = IF f.day < now - cfg.maxAge
                                       THEN -1 ELSE size[f]
                /\ deleteFileGz[f] = IF f.day < now - cfg.maxAge
                                     THEN "none" ELSE gz[f]]_vars

\* a maintenance pass of p: the pass of Init at startup or a scheduled one
MaintenancePass(p) == InitEnd(p) \/ InitCron(p) \/ Cron(p)

\* C18: with the count policy (rotationCount = k > 0, maxAge unset), after a
\* maintenance pass at most k family files other than the active file and
\* the markers remain.
C18_CountPolicyEnforced ==
    [][\A p \in Procs :
          (MaintenancePass(p) /\ cfg.rotationCount > 0 /\ cfg.maxAge <= 0)
          => Cardinality({f \in Files : size'[f] >= 0 \/ gz'[f] # "none"}
                           \ {curFn'[p]}) <= cfg.rotationCount]_vars

\* a maintenance pass of p ends in this step
PassEnds(p) == Cron(p) \/ InitEnd(p) \/ (InitCron(p) /\ started'[p])

\* C19: every retention pass, scheduled or at startup, removes all lock
\* markers and symlink markers of the family: none is left when the pass has
\* ended.
C19_PassRemovesMarkers ==
    [][\A p \in Procs :
          PassEnds(p) => \A f \in Files : lockf'[f] = 0 /\ ~tmpl'[f]]_vars

\* C20: after Close() has returned, a later Write appends to no file, creates
\* no file and opens no handle, also when the active file is missing or has
\* reached the size threshold (stated for the first Write after the Close).
C20_ClosedStaysClosed ==
    [][\A p \in Procs :
          (ret[p].op = "close" /\ curFn[p] # NoFile /\ Write(p))
          => /\ pc'[p] = "idle"
             /\ size' = size
             /\ nopen'[p] = nopen[p]]_vars

\* C21: Close() is idempotent: every Close returns nil and leaves the engine
\* without an open handle, and a Close that follows a Close changes no state.
C21_CloseIdempotent ==
    [][\A p \in Procs :
          Close(p)
          => /\ ~ret'[p].err
             /\ outFh'[p] = NilFh /\ nopen'[p] = 0
             /\ ret[p].op = "close" => vars' = vars]_vars

\* an engine that has written has been closed: a further Close finds the nil
\* handle
C21_Witness ==
    \E p \in Procs : /\ ret[p].op = "close" /\ Exists(curFn[p])
                     /\ outFh[p] = NilFh /\ nopen[p] = 0

\* C22: a rotation event is dispatched at most once per rotation and only
\* when a successful rotation has switched the active file; its previous path
\* is what CurrentFileName() returned before the switch and its new path what
\* it returns after.
C22_EventOnlyOnSuccess ==
    [][\A p \in Procs :
          hsent'[p] # hsent[p]
          => /\ hsent'[p] = hsent[p] + 1
             /\ pc[p] = "swap" /\ rerr[p] = "none" /\ pc'[p] = "idle"
             /\ curFn'[p] # curFn[p]
             /\ hev'[p] = [prev |-> curFn[p], current |-> curFn'[p]]]_vars

\* C23: a Write or Rotate call that rotates returns whether or not the
\* handler's invocations ever return, and so does every later call made
\* while an invocation is still running.
C23_CallReturnsWithoutHandler ==
    \A p \in Procs : (pc[p] \in {"lock", "unlock", "swap"}) ~> (pc[p] = "idle")

\* a later rotating call has returned while the invocation of an earlier
\* rotation was still running
C23_Witness ==
    \E p \in Procs : hrun[p] = 2 /\ pc[p] = "idle" /\ ret[p].op = "write"

\* C24: every engine returned by New has exactly one of maxAge and
\* rotationCount non-zero (New copies both options into the engine; when
\* neither is set maxAge would have to be the default of 7 days).
C24_OneRetentionPolicy ==
    \/ cfg.maxAge > 0 /\ cfg.rotationCount = 0
    \/ cfg.maxAge = 0 /\ cfg.rotationCount > 0

\* the maintenance pass that Init runs has been completed by p
StartupPassDone(p) == started[p] \/ (pc[p] = "init" /\ wpc[p] = "idle")

\* C25: with a schedule configured, no schedule-driven pass runs before the
\* pass of Init is complete, and in every pass retention has been applied
\* (no expired file is left) when its compression starts.
C25_StartupPassFirst ==
    [][\A p \in Procs :
          /\ Cron(p) => StartupPassDone(p)
          /\ (Cron(p) \/ InitCron(p))
                => \A f \in Files :
                      Expired(f) => size'[f] < 0 /\ gz'[f] = "none"]_vars

\* C26: for every clock, in UTC or not, the bucket in the path GetNewFileName
\* returns is the calendar date of clock.Now(), and the path is the
\* un-indexed name of that bucket or one with an index from 1 on.
C26_NameHasClockDate ==
    \A p \in Procs :
        pc[p] = "named" => newFn[p].day = now /\ newFn[p].idx >= 0

\* C27: no step of a maintenance pass (deleteSameLogFile and compressLogFiles,
\* run from cronFunc) removes an original that retention keeps unless its
\* compressed sibling is completely written; in particular not an original
\* beside the partial sibling that an interrupted compression left.
C27_OriginalKeptBesidePartial ==
    [][\A f \in Files :
          (size[f] >= 0 /\ size'[f] < 0 /\ ~(cfg.maxAge > 0 /\ Expired(f)))
          => gz[f] = "full"]_vars

\* the original of f or its compressed sibling is in the directory
Kept(f) == size[f] >= 0 \/ gz[f] # "none"

\* C28: while compressLogFiles goroutines and cron passes run concurrently
\* over the family, under every interleaving of their steps a file that
\* retention keeps has its original or its compressed sibling after every
\* step.
C28_OneCopyKept ==
    [][\A f \in Files :
          (Kept(f) /\ ~(cfg.maxAge > 0 /\ Expired(f))) => Kept(f)']_vars

\* C29: the handle swap of a rotation (closing the previous handle, adopting
\* the new handle and path) happens while the engine holds the lock marker of
\* the new path.
C29_SwapUnderMarker ==
    [][\A p \in Procs :
          (pc[p] = "swap" /\ rerr[p] = "none" /\ pc'[p] = "idle")
          => lockf[newFn[p]] = p]_vars

\* a Write or Rotate of p is between rl.mutex.Lock() and the deferred Unlock
MutexHeld(p) == pc[p] \in {"lock", "symlink", "rename", "unlock", "swap"}

\* C30: every read of the active path is made under rl.mutex, also the one
\* of compressLogFiles: it never reads rl.curFn while a Write or Rotate of
\* the engine holds the mutex.
C30_ReadsUnderMutex ==
    [][\A p \in Procs : WSelect(p) => ~MutexHeld(p)]_vars

\* a Write or Rotate call of p returns in this step
CallReturns(p) == pc'[p] = "idle" /\ (Write(p) \/ Rotate(p) \/ MutexHeld(p))

\* C31: from the first successful Write until Close, after every Write or
\* Rotate call, successful or not, the engine's handle is non-nil and open on
\* the file that CurrentFileName() names.
C31_HandleOnActiveFile ==
    [][\A p \in Procs :
          (CallReturns(p) /\ (outFh[p] # NilFh \/ ~ret'[p].err))
          => /\ outFh'[p] # NilFh
             /\ outFh'[p].f = curFn'[p]
             /\ outFh'[p].att /\ size'[curFn'[p]] >= 0]_vars

\* C32: whenever no Write or Rotate call is in progress, the engine owns at
\* most one open file handle, the current one: the new handle of a failed
\* Rotate and the previous handle of a completed rotation have been closed.
C32_OneOpenHandle ==
    \A p \in Procs :
        ~MutexHeld(p) => nopen[p] = (IF outFh[p] = NilFh THEN 0 ELSE 1)

C32_Witness ==
    \E p \in Procs :
        /\ pc[p] = "idle" /\ ret[p].op = "rotate" /\ ret[p].err
        /\ ret[p].cause = "lock"
        /\ outFh[p] # NilFh /\ nopen[p] = 1
        /\ curFn[p] = outFh[p].f /\ size[curFn[p]] > 0

\* the frame of a Write of p that needs no rotation
NoRotationFrame(p) ==
    /\ curFn'[p] = curFn[p] /\ outFh'[p] = outFh[p]
    /\ generation'[p] = generation[p]
    /\ \A f \in Files : size[f] < 0 => size'[f] < 0
    /\ lockf' = lockf /\ hsent'[p] = hsent[p]

\* C33: if the active file exists, is below the size threshold (or size
\* rotation is off) and the time condition does not hold (or time rotation is
\* off), Write leaves the active path, the handle and the generation
\* unchanged, creates no file and no marker, dispatches no event, and appends
\* the bytes to the active file.
C33_NoRotationFrame ==
    [][\A p \in Procs :
          (Write(p) /\ ~ForceNewFile(p))
          => /\ NoRotationFrame(p)
             /\ size'[curFn[p]] = size[curFn[p]] + 1]_vars

\* C33, amended: the same for an engine whose handle has not been closed
C33_NoRotationFrameOpen ==
    [][\A p \in Procs :
          (Write(p) /\ ~ForceNewFile(p) /\ outFh[p] # NilFh)
          => /\ NoRotationFrame(p)
             /\ size'[curFn[p]] = size[curFn[p]] + 1]_vars

C33_Witness ==
    \E p \in Procs :
        /\ pc[p] = "idle" /\ ret[p].op = "write" /\ ~ret[p].err
        /\ outFh[p] # NilFh /\ outFh[p].f = curFn[p]
        /\ size[curFn[p]] = 2 /\ curFn[p].idx = 0 /\ generation[p] = 0

\* C34: a Write called while the active path does not exist performs a
\* rotation whatever the size and time settings are, and when it returns
\* successfully CurrentFileName() names an existing file that contains the
\* written bytes.
C34_MissingPathRotates ==
    [][\A p \in Procs :
          /\ (Write(p) /\ ~Exists(curFn[p]))
             => (pc'[p] = "lock" \/ ret'[p].err)
          /\ (/\ pc[p] = "swap" /\ op[p] = "write" /\ pc'[p] = "idle"
              /\ ~Exists(pre[p].curFn) /\ ~ret'[p].err)
             => (Exists(curFn'[p]) /\ size'[curFn'[p]] >= 1)]_vars

\* C35: every Write and Rotate call returns without waiting for anything
\* else: also when the lock marker of its target stays held by another
\* process, and when a maintenance pass is running or never ends.
C35_CallTerminates == MutexHeld(1) ~> (pc[1] = "idle")

C35_Witness ==
    /\ pc[1] = "idle" /\ ret[1].cause = "lock"
    /\ pc[2] \in {"symlink", "rename", "unlock"} /\ lockf[newFn[2]] = 2
    /\ newFn[2] = curFn[1]
    /\ wpc[1] # "idle"

\* C36: with a symbolic link configured, once a rotation has succeeded the
\* link resolves to the file CurrentFileName() names whenever no call is in
\* progress: a call that returns from a successful rotation, or that began
\* with the link on its active file, returns with the link on its active
\* file, also when its rotation failed.
C36_LinkFollowsActive ==
    [][\A p \in Procs :
          (/\ cfg.link /\ (cfg.maxAge > 0 \/ cfg.rotationCount > 0)
           /\ CallReturns(p)
           /\ \/ link # NoFile /\ link = curFn[p]
              \/ pc[p] = "swap" /\ rerr[p] = "none")
          => link' = curFn'[p]]_vars

\* C37: round trip of naming and parsing: of every path GetNewFileName
\* produces, with or without an index, for UTC and other clocks,
\* ParseTimeFromFileName returns without error the bucket date the path was
\* generated with.
C37_NameParsesBack ==
    \A p \in Procs :
        (pc[p] = "named" /\ newFn[p].idx <= MaxIdx)
        => /\ ParseTimeFromFileName(newFn[p]) # -1
           /\ ParseTimeFromFileName(newFn[p]) = GenerateFileNme

\* C38: with compression disabled (compressFile = false) no step creates a
\* compressed sibling of a family file, and no family file is removed as the
\* result of compressing it: a file that goes is one retention removes.
C38_NoCompressionWhenDisabled ==
    [][~cfg.compress
       => \A f \in Files :
             /\ gz[f] = "none" => gz'[f] = "none"
             /\ (size[f] >= 0 /\ size'[f] < 0)
                => (cfg.maxAge > 0 /\ Expired(f))]_vars

=============================================================================
